---- MODULE Spec2Model ----
(***************************************************************************)
(* Model of english_hash.py: hashing a file with SHA-512 (whole file, or a *)
(* pseudo-random sample of blocks) and writing the digest as English      *)
(* words, 12 bits per word.                                               *)
(*                                                                         *)
(* Optional Python values are sequences: None is <<>>, a given value v is  *)
(* <<v>>.  Byte strings are sequences of integers 0..255.  A word of the   *)
(* word list is identified with its index (the list has 4096 distinct      *)
(* words).  Python 2 semantics throughout (the file uses print statements):*)
(* "/" on two ints is floor division, int() truncates towards zero.        *)
(***************************************************************************)
EXTENDS Integers, Sequences, FiniteSets, TLC

VARIABLES
    percent,        \* --percent, as parsed (None or a number)
    blocks,         \* --blocks
    min_blocks,     \* --min-blocks
    max_blocks,     \* --max-blocks
    block_size,     \* --block-size
    filesize,       \* the filesize argument of sha_file_random
    nwords,         \* --nwords
    files,          \* the files named on the command line (their contents)
    sha,            \* per process: state of the hashlib object
    rng,            \* per process: state of the global generator of module random
    status,         \* per process: "ready", "done", or the exception that ended it
    n_blocks,       \* per process: n_blocks after line 297
    block_offsets,  \* per process: block_offsets after line 303
    events,         \* per process: the calls made on sha, random and f, in order
    hash,           \* per process: the primary digest returned
    hash2,          \* per process: the secondary digest returned
    fidx,           \* per process: number of files of the command line hashed so far
    printed,        \* per process: what the main loop printed, one entry per file
    s,              \* input of a key_to_english / wordhash tail evaluation
    s2,             \* secondary digest of a wordhash tail evaluation
    out,            \* result of key_to_english(s, wordlist), None before the call
    padinfo,        \* padding, padding_bytes and encoder input of wordhash
    rets,           \* results of wordhash, by the n it was called with
    enc             \* key_to_english run statement by statement: its locals

vars == <<percent, blocks, min_blocks, max_blocks, block_size, filesize, nwords,
          files, sha, rng, status, n_blocks, block_offsets, events, hash, hash2,
          fidx, printed, s, s2, out, padinfo, rets, enc>>

argvars == <<percent, blocks, min_blocks, max_blocks, block_size, filesize,
             nwords, files>>
procvars == <<sha, rng, status, n_blocks, block_offsets, events, hash, hash2,
              fidx, printed>>
wordvars == <<s, s2, out, padinfo, rets, enc>>

----------------------------------------------------------------------------
(* Bounds of the model *)

MaxFileSize == 3        \* files of 0..MaxFileSize bytes
ShaMod == 251           \* number of states of the abstract digest accumulator
RngMod == 3             \* number of states of the abstract generator

(* Program constants *)

DigestSize == 64        \* hashlib.sha512: 64-byte digests
DefaultBlockSize == 512
DefaultNWords == 12
WordlistLen == 4096
word_bits == 12
char_bits == 8

None == <<>>
Some(v) == <<v>>
Val(o) == o[1]

Runs == {1, 2}

Max(a, b) == IF a >= b THEN a ELSE b
Min(a, b) == IF a <= b THEN a ELSE b

----------------------------------------------------------------------------
(* Python 2 arithmetic *)

\* a / b on ints: floor division; b # 0
PyFloorDiv(a, b) == IF b > 0 THEN a \div b ELSE (0 - a) \div (0 - b)

\* int(a / float(b)) for b > 0: truncation towards zero
PyIntTrunc(a, b) == IF a >= 0 THEN a \div b ELSE 0 - ((0 - a) \div b)

\* str(n) for an int n >= 0, as the ASCII codes of its decimal digits
RECURSIVE PyStr(_)
PyStr(n) == IF n < 10 THEN <<48 + n>> ELSE Append(PyStr(n \div 10), 48 + (n % 10))

\* sorted(l) for a list of ints
RECURSIVE Insert(_, _)
Insert(x, l) ==
    IF l = <<>> THEN <<x>>
    ELSE IF x <= Head(l) THEN <<x>> \o l
    ELSE <<Head(l)>> \o Insert(x, Tail(l))
RECURSIVE Sorted(_)
Sorted(l) == IF l = <<>> THEN <<>> ELSE Insert(Head(l), Sorted(Tail(l)))

----------------------------------------------------------------------------
(* The digest primitive and the generator, as small deterministic machines *)

\* hashlib.sha512(): a fresh accumulator
ShaNew == 1

\* the accumulator after absorbing data[lo..hi], byte by byte in order
\* (the range is halved, and h is looked at first, so that TLC evaluates
\* the left half before it descends into the right half)
RECURSIVE ShaAbsorb(_, _, _, _)
ShaAbsorb(h, data, lo, hi) ==
    IF h < 0 \/ lo > hi THEN h
    ELSE IF lo = hi THEN (h * 31 + data[lo] + 1) % ShaMod
    ELSE LET mid == (lo + hi) \div 2
             left == ShaAbsorb(h, data, lo, mid)
         IN ShaAbsorb(left, data, mid + 1, hi)

\* sha.update(data)
ShaUpdate(h, data) == ShaAbsorb(h, data, 1, Len(data))

\* sha.digest(): DigestSize bytes, a function of the accumulator; the
\* accumulator stays usable
ShaDigest(h) == [i \in 1..DigestSize |-> (h * (2 * i + 1) + 37 * i) % 256]

\* random.seed(x) for a byte string x: the generator state is a function of x
RECURSIVE SumBytes(_, _, _)
SumBytes(b, lo, hi) ==
    IF lo > hi THEN 0
    ELSE IF lo = hi THEN b[lo] * lo
    ELSE SumBytes(b, lo, (lo + hi) \div 2) + SumBytes(b, (lo + hi) \div 2 + 1, hi)
RandomSeed(x) == SumBytes(x, 1, Len(x)) % RngMod

\* random.randint(0, m): the value drawn in state g, and the state after it
RandintValue(g, m) == (g * 7919 + 13) % (m + 1)
RandintNext(g) == (g + 1) % RngMod

\* [random.randint(0, m) for i in range(k)], from generator state g
RECURSIVE Draws(_, _, _)
Draws(g, m, k) ==
    IF k <= 0 THEN <<>>
    ELSE <<RandintValue(g, m)>> \o Draws(RandintNext(g), m, k - 1)

----------------------------------------------------------------------------
(* File objects *)

\* f.read(count) at position pos of a file with the given content:
\* count < 0 reads to the end, a position at or past the end reads ''
FileRead(content, pos, count) ==
    LET end == IF count < 0 THEN Len(content)
               ELSE Min(Len(content), pos + count)
    IN IF pos >= Len(content) THEN <<>> ELSE SubSeq(content, pos + 1, end)

----------------------------------------------------------------------------
(* sha_file_random *)

\* lines 282-283: the block size in effect
BlockSizeOf(bs) == IF bs = None THEN DefaultBlockSize ELSE Val(bs)

\* lines 286-289: the file size in effect
SizeOf(content, fsz) == IF fsz = None THEN Len(content) ELSE Val(fsz)

\* line 293 raises: division by a zero block size, or None as a factor
CountError(bs, pct, nb) ==
    IF nb # None THEN "none"
    ELSE IF bs = 0 THEN "ZeroDivisionError"
    ELSE IF pct = None THEN "TypeError"
    ELSE "none"

\* line 293 with size/block_size taken as the exact quotient (true division)
PercentBlocksExact(size, bs, pct) ==
    IF bs > 0 THEN PyIntTrunc(size * pct, bs * 100)
    ELSE PyIntTrunc((0 - size) * pct, (0 - bs) * 100)

\* line 293: int(((size/block_size)*percent)/100)
PercentBlocks(size, bs, pct) == PyIntTrunc(PyFloorDiv(size, bs) * pct, 100)

\* lines 294-297: the clamps, applied when the bound is not None
ClampBlocks(k, minb, maxb) ==
    LET k1 == IF minb # None THEN Max(k, Val(minb)) ELSE k
    IN IF maxb # None THEN Min(k1, Val(maxb)) ELSE k1

\* lines 292-297: the number of random blocks (CountError is "none")
NBlocks(size, bs, pct, nb, minb, maxb) ==
    ClampBlocks(IF nb # None THEN Val(nb) ELSE PercentBlocks(size, bs, Val(pct)),
                minb, maxb)

\* lines 300-303 without the sort
BlockOffsetsUnsorted(g, size, bs, k) ==
    <<0>> \o Draws(g, Max(0, size - bs), k) \o <<size - bs>>

\* lines 300-303: first block, k random blocks, last block, sorted
BlockOffsets(g, size, bs, k) ==
    Sorted(<<0>> \o Draws(g, Max(0, size - bs), k) \o <<size - bs>>)

\* lines 309-311: seek to and read each offset in turn.  f.seek of a
\* negative offset raises IOError and ends the loop.
RECURSIVE ReadBlocks(_, _, _, _)
ReadBlocks(h, content, offsets, bs) ==
    IF h < 0 \/ offsets = <<>> THEN [sha |-> h, ok |-> TRUE, log |-> <<>>]
    ELSE IF Head(offsets) < 0
         THEN [sha |-> h, ok |-> FALSE, log |-> << <<"seek", Head(offsets)>> >>]
    ELSE LET data == FileRead(content, Head(offsets), bs)
             rest == ReadBlocks(ShaUpdate(h, data), content, Tail(offsets), bs)
         IN [rest EXCEPT !.log = << <<"seek", Head(offsets)>>,
                                    <<"update", Len(data)>> >> \o @]

\* the randint calls of line 300, as events
DrawEvents(g, m, k) ==
    LET d == Draws(g, m, k) IN [i \in 1..Len(d) |-> <<"randint", d[i]>>]

\* lines 271-316: the whole call, from accumulator h0 and generator g0
ShaFileRandom(h0, g0, content, pct, nb, minb, maxb, bs0, fsz) ==
    LET bs == BlockSizeOf(bs0)
        size == SizeOf(content, fsz)
        cerr == CountError(bs, pct, nb)
        k == NBlocks(size, bs, pct, nb, minb, maxb)
        offsets == BlockOffsets(g0, size, bs, k)
        h1 == ShaUpdate(h0, PyStr(size))
        g2 == RandomSeed(ShaDigest(h1))
        rd == ReadBlocks(h1, content, offsets, bs)
        ev == DrawEvents(g0, Max(0, size - bs), k)
              \o << <<"update", Len(PyStr(size))>>, <<"seed", 0>> >> \o rd.log
        h3 == ShaUpdate(rd.sha, ShaDigest(rd.sha))
    IN IF cerr # "none"
       THEN [status |-> cerr, sha |-> h0, rng |-> g0, n_blocks |-> None,
             block_offsets |-> None, events |-> <<>>, hash |-> None, hash2 |-> None]
       ELSE IF ~rd.ok
       THEN [status |-> "IOError", sha |-> rd.sha, rng |-> g2, n_blocks |-> Some(k),
             block_offsets |-> Some(offsets), events |-> ev,
             hash |-> None, hash2 |-> None]
       ELSE [status |-> "done", sha |-> h3, rng |-> g2, n_blocks |-> Some(k),
             block_offsets |-> Some(offsets), events |-> ev,
             hash |-> Some(ShaDigest(rd.sha)), hash2 |-> Some(ShaDigest(h3))]

----------------------------------------------------------------------------
(* sha_file *)

\* lines 256-268: the whole file through the accumulator, then the digest,
\* then the digest fed back in for the secondary digest
ShaFile(h0, content) ==
    LET h1 == ShaUpdate(h0, content)
        h2 == ShaUpdate(h1, ShaDigest(h1))
    IN [status |-> "done", sha |-> h2, hash |-> Some(ShaDigest(h1)),
        hash2 |-> Some(ShaDigest(h2))]

----------------------------------------------------------------------------
(* key_to_english *)

\* line 235: int(floor(log(len(words))/log(2)))
RECURSIVE FloorLog2(_)
FloorLog2(n) == IF n < 2 THEN 0 ELSE 1 + FloorLog2(n \div 2)

\* words[ix]
WordAt(ix) == ix

\* lines 241-249: the inner loop over the bits of one byte; st is the
\* encoder state [ix, n, out]
RECURSIVE EncodeByte(_, _, _)
EncodeByte(st, byte, nbits) ==
    IF st.n < 0 \/ byte = 0 THEN st
    ELSE LET ix1 == st.ix * 2 + (byte % 2)
             n1 == st.n + 1
         IN IF n1 = nbits
            THEN EncodeByte([ix |-> 0, n |-> 0, out |-> Append(st.out, WordAt(ix1))],
                            byte \div 2, nbits)
            ELSE EncodeByte([ix |-> ix1, n |-> n1, out |-> st.out],
                            byte \div 2, nbits)

\* lines 239-249: the loop over the characters str[lo..hi], in order
\* (the range is halved, and st is looked at first, so that TLC evaluates
\* the left half before it descends into the right half)
RECURSIVE EncodeChars(_, _, _, _, _)
EncodeChars(st, str, lo, hi, nbits) ==
    IF st.n < 0 \/ lo > hi THEN st
    ELSE IF lo = hi THEN EncodeByte(st, str[lo], nbits)
    ELSE LET mid == (lo + hi) \div 2
             left == EncodeChars(st, str, lo, mid, nbits)
         IN EncodeChars(left, str, mid + 1, hi, nbits)

\* lines 230-253
key_to_english(str, nwordlist) ==
    LET st == EncodeChars([ix |-> 0, n |-> 0, out |-> <<>>], str, 1, Len(str),
                          FloorLog2(nwordlist))
    IN IF st.n > 0 THEN Append(st.out, WordAt(st.ix)) ELSE st.out

(* The same function statement by statement.  The locals are a record:     *)
(* pc is the statement about to run ("for" line 239, "while" line 241,     *)
(* "if" line 246, "tail" line 251, "done" after the return, "IndexError"   *)
(* if words[ix] was out of range), pos the number of characters taken from *)
(* s, and byte, ix, n, out the locals of those names.                      *)

\* lines 236-238
EncStart == [pc |-> "for", pos |-> 0, byte |-> 0, ix |-> 0, n |-> 0, out |-> <<>>]

\* lines 242-245
ShiftBit(st) ==
    [st EXCEPT !.ix = st.ix * 2 + (st.byte % 2),
               !.byte = st.byte \div 2,
               !.n = st.n + 1,
               !.pc = "if"]

\* out.append(words[ix]): an index outside the list raises IndexError
AppendWord(st, nwordlist, pcnext) ==
    IF st.ix >= 0 /\ st.ix < nwordlist
    THEN [st EXCEPT !.out = Append(st.out, WordAt(st.ix)), !.pc = pcnext]
    ELSE [st EXCEPT !.pc = "IndexError"]

\* lines 246-248 without line 249: the index is carried into the next group
EmitIfFullKeepIndex(st, nbits, nwordlist) ==
    IF st.n = nbits
    THEN LET e == AppendWord(st, nwordlist, "while")
         IN IF e.pc = "IndexError" THEN e ELSE [e EXCEPT !.n = 0]
    ELSE [st EXCEPT !.pc = "while"]

\* lines 246-249
EmitIfFull(st, nbits, nwordlist) ==
    IF st.n = nbits
    THEN LET e == AppendWord(st, nwordlist, "while")
         IN IF e.pc = "IndexError" THEN e ELSE [e EXCEPT !.n = 0, !.ix = 0]
    ELSE [st EXCEPT !.pc = "while"]

\* lines 251-253
EmitTail(st, nwordlist) ==
    IF st.n > 0 THEN AppendWord(st, nwordlist, "done")
    ELSE [st EXCEPT !.pc = "done"]

----------------------------------------------------------------------------
(* wordhash *)

\* line 331
Padding(hashlen) == word_bits - ((hashlen * char_bits) % word_bits)

\* line 332
PaddingBytes(hashlen) == Padding(hashlen) \div char_bits

\* hash2[0:padding_bytes]
PyPrefix(l, k) == SubSeq(l, 1, Min(Len(l), k))

\* line 333: the string handed to key_to_english
EncoderInput(h, h2) == h \o PyPrefix(h2, PaddingBytes(Len(h)))

\* words[1:n], a slice that loses the first word
TruncateFromSecond(words, n) ==
    IF n # None THEN SubSeq(words, 2, Min(Len(words), Val(n))) ELSE words

\* lines 334-335: words[0:n] when n is given (a negative n counts from the end)
Truncate(words, n) ==
    IF n # None
    THEN IF Val(n) >= 0 THEN SubSeq(words, 1, Min(Len(words), Val(n)))
         ELSE SubSeq(words, 1, Len(words) + Val(n))
    ELSE words

\* lines 329-336: digests to words.  The space-joined string returned is
\* kept as the list of its words (no word contains a space).
WordhashWords(h, h2, n) ==
    Truncate(key_to_english(EncoderInput(h, h2), WordlistLen), n)

\* lines 318-336: the whole call, from accumulator h0 and generator g0
Wordhash(h0, g0, content, n, nb, pct, bs, minb, maxb) ==
    LET sampled == nb # None \/ pct # None
        r == IF sampled
             THEN ShaFileRandom(h0, g0, content, pct, nb, minb, maxb, bs, None)
             ELSE [status |-> "done", sha |-> ShaFile(h0, content).sha, rng |-> g0,
                   n_blocks |-> None, block_offsets |-> None, events |-> <<>>,
                   hash |-> ShaFile(h0, content).hash,
                   hash2 |-> ShaFile(h0, content).hash2]
    IN [r EXCEPT !.status = r.status] @@
       [words |-> IF r.status = "done"
                  THEN Some(WordhashWords(Val(r.hash), Val(r.hash2), n))
                  ELSE None]

----------------------------------------------------------------------------
(* Inputs *)

\* file contents, one per size
Content(n) == [i \in 1..n |-> 64 + i]
FileContents == {Content(n) : n \in 0..MaxFileSize}

\* the script itself, hashed when no file is named (lines 370-374)
ScriptContent == <<34, 34, 34, 10>>

Percents == {None, Some(0), Some(80), Some(100)}
BlockCounts == {None, Some(0), Some(2)}
MinBlocks == {None, Some(0), Some(3)}
MaxBlocks == {None, Some(0), Some(2)}
BlockSizes == {None, Some(0 - 1), Some(0), Some(1), Some(2)}
FileSizes == {None, Some(10000)}

\* lines 364-367: n defaults to 12
MainN == IF nwords = None THEN Some(DefaultNWords) ELSE nwords

ProcInit ==
    /\ sha = [r \in Runs |-> ShaNew]
    /\ rng \in [Runs -> 0..(RngMod - 1)]
    /\ status = [r \in Runs |-> "ready"]
    /\ n_blocks = [r \in Runs |-> None]
    /\ block_offsets = [r \in Runs |-> None]
    /\ events = [r \in Runs |-> <<>>]
    /\ hash = [r \in Runs |-> None]
    /\ hash2 = [r \in Runs |-> None]
    /\ fidx = [r \in Runs |-> 0]
    /\ printed = [r \in Runs |-> <<>>]

\* key_to_english not running
EncIdle == [pc |-> "idle", pos |-> 0, byte |-> 0, ix |-> 0, n |-> 0, out |-> <<>>]

WordsIdle ==
    /\ s = <<>>
    /\ s2 = <<>>
    /\ out = None
    /\ padinfo = None
    /\ rets = {}
    /\ enc = EncIdle

----------------------------------------------------------------------------
(* Two processes, each calling sha_file_random once on the same file with  *)
(* the same arguments and a fresh hashlib object; the generator of each    *)
(* process starts in a state of its own.                                   *)

Init ==
    /\ percent \in Percents
    /\ blocks \in BlockCounts
    /\ min_blocks \in MinBlocks
    /\ max_blocks \in MaxBlocks
    /\ block_size \in BlockSizes
    /\ filesize \in IF block_size = None THEN FileSizes
                    ELSE {None}
    /\ nwords = None
    /\ files \in {<<c>> : c \in FileContents}
    /\ ProcInit
    /\ WordsIdle

SampleCall(r) ==
    /\ status[r] = "ready"
    /\ \E res \in {ShaFileRandom(sha[r], rng[r], files[1], percent, blocks,
                                 min_blocks, max_blocks, block_size, filesize)} :
          /\ sha' = [sha EXCEPT ![r] = res.sha]
          /\ rng' = [rng EXCEPT ![r] = res.rng]
          /\ status' = [status EXCEPT ![r] = res.status]
          /\ n_blocks' = [n_blocks EXCEPT ![r] = res.n_blocks]
          /\ block_offsets' = [block_offsets EXCEPT ![r] = res.block_offsets]
          /\ events' = [events EXCEPT ![r] = res.events]
          /\ hash' = [hash EXCEPT ![r] = res.hash]
          /\ hash2' = [hash2 EXCEPT ![r] = res.hash2]
    /\ UNCHANGED <<fidx, printed>>
    /\ UNCHANGED argvars
    /\ UNCHANGED wordvars

Next == \E r \in Runs : SampleCall(r)

Spec == Init /\ [][Next]_vars

----------------------------------------------------------------------------
(* The command line (lines 345-378): one hashlib object made at line 369,  *)
(* then wordhash_file for each file named, or for the script itself.       *)

MainPercents == {None, Some(100)}
MainBlockCounts == {None, Some(1)}
MainBlockSizes == {None, Some(1)}
MainNWords == {None, Some(43)}
MaxFiles == 2

FileLists == UNION {[1..k -> FileContents] : k \in 0..MaxFiles}

InitMain ==
    /\ percent \in MainPercents
    /\ blocks \in MainBlockCounts
    /\ min_blocks = None
    /\ max_blocks = None
    /\ block_size \in MainBlockSizes
    /\ filesize = None
    /\ nwords \in MainNWords
    /\ files \in FileLists
    /\ ProcInit
    /\ WordsIdle

\* one wordhash_file call and its print, for the file with this content
HashAndPrint(r, content, last) ==
    \E res \in {Wordhash(sha[r], rng[r], content, MainN, blocks, percent,
                         block_size, min_blocks, max_blocks)} :
       /\ sha' = [sha EXCEPT ![r] = res.sha]
       /\ rng' = [rng EXCEPT ![r] = res.rng]
       /\ status' = [status EXCEPT ![r] =
                        IF res.status # "done" THEN res.status
                        ELSE IF last THEN "done" ELSE "ready"]
       /\ n_blocks' = [n_blocks EXCEPT ![r] = res.n_blocks]
       /\ block_offsets' = [block_offsets EXCEPT ![r] = res.block_offsets]
       /\ events' = [events EXCEPT ![r] = res.events]
       /\ hash' = [hash EXCEPT ![r] = res.hash]
       /\ hash2' = [hash2 EXCEPT ![r] = res.hash2]
       /\ fidx' = [fidx EXCEPT ![r] = @ + 1]
       /\ printed' = [printed EXCEPT ![r] =
                        IF res.status = "done"
                        THEN Append(@, [hash |-> Val(res.hash),
                                        hash2 |-> Val(res.hash2),
                                        words |-> Val(res.words)])
                        ELSE @]

\* lines 370-374: no file named
MainHashScript(r) ==
    /\ status[r] = "ready"
    /\ files = <<>>
    /\ HashAndPrint(r, ScriptContent, TRUE)
    /\ UNCHANGED argvars
    /\ UNCHANGED wordvars

\* lines 377-378: one iteration of the loop over the files
MainHashFile(r) ==
    /\ status[r] = "ready"
    /\ fidx[r] < Len(files)
    /\ HashAndPrint(r, files[fidx[r] + 1], fidx[r] + 1 = Len(files))
    /\ UNCHANGED argvars
    /\ UNCHANGED wordvars

NextMain == \E r \in Runs : MainHashScript(r) \/ MainHashFile(r)

SpecMain == InitMain /\ [][NextMain]_vars

----------------------------------------------------------------------------
(* The encoding half on its own: key_to_english on a byte string, and the  *)
(* part of wordhash after the digests are in hand (lines 329-336), called  *)
(* with several n for the same digests.  s is the primary digest and s2    *)
(* the secondary digest that sha_file or sha_file_random returned; they    *)
(* range over byte strings of hashlib's digest sizes and over short ones.  *)

MaxKeyLen == 2
ByteVals == {0, 1, 128, 255}
DigestSizes == {20, 48, DigestSize}
NChoices == {None, Some(0), Some(1), Some(2), Some(43)}

Pattern(len, a, b) == [i \in 1..len |-> IF i % 2 = 1 THEN a ELSE b]

Keys ==
    UNION {[1..k -> ByteVals] : k \in 0..MaxKeyLen}
    \cup {Pattern(d, a, b) : d \in DigestSizes, a \in ByteVals, b \in ByteVals}

ProcIdle ==
    /\ sha = [r \in Runs |-> ShaNew]
    /\ rng = [r \in Runs |-> 0]
    /\ status = [r \in Runs |-> "done"]
    /\ n_blocks = [r \in Runs |-> None]
    /\ block_offsets = [r \in Runs |-> None]
    /\ events = [r \in Runs |-> <<>>]
    /\ hash = [r \in Runs |-> None]
    /\ hash2 = [r \in Runs |-> None]
    /\ fidx = [r \in Runs |-> 0]
    /\ printed = [r \in Runs |-> <<>>]

InitWords ==
    /\ percent = None
    /\ blocks = None
    /\ min_blocks = None
    /\ max_blocks = None
    /\ block_size = None
    /\ filesize = None
    /\ nwords = None
    /\ files = <<>>
    /\ ProcIdle
    /\ s \in Keys
    /\ s2 \in {Pattern(Len(s), c, c) : c \in {1, 255}}
    /\ out = None
    /\ padinfo = None
    /\ rets = {}
    /\ enc = EncIdle

\* key_to_english(s, wordlist)
KeyToEnglishCall ==
    /\ out = None
    /\ out' = Some(key_to_english(s, WordlistLen))
    /\ UNCHANGED <<s, s2, padinfo, rets, enc>>
    /\ UNCHANGED argvars
    /\ UNCHANGED procvars

\* wordhash(sha, f, n=n) from line 329 on, the digests being s and s2
WordhashTailCall(n) ==
    /\ \A e \in rets : e.n # n
    /\ padinfo' = Some([padding |-> Padding(Len(s)),
                        padding_bytes |-> PaddingBytes(Len(s)),
                        key |-> EncoderInput(s, s2)])
    /\ rets' = rets \cup {[n |-> n, words |-> WordhashWords(s, s2, n)]}
    /\ UNCHANGED <<s, s2, out, enc>>
    /\ UNCHANGED argvars
    /\ UNCHANGED procvars

NextWords == KeyToEnglishCall \/ \E n \in NChoices : WordhashTailCall(n)

SpecWords == InitWords /\ [][NextWords]_vars

----------------------------------------------------------------------------
(* key_to_english(s, wordlist) run one statement at a time. *)

InitLoop ==
    /\ percent = None
    /\ blocks = None
    /\ min_blocks = None
    /\ max_blocks = None
    /\ block_size = None
    /\ filesize = None
    /\ nwords = None
    /\ files = <<>>
    /\ ProcIdle
    /\ s \in Keys
    /\ s2 = <<>>
    /\ out = None
    /\ padinfo = None
    /\ rets = {}
    /\ enc = EncStart

\* line 239, a character is left: line 240
ForNext ==
    /\ enc.pc = "for"
    /\ enc.pos < Len(s)
    /\ enc' = [enc EXCEPT !.pos = enc.pos + 1, !.byte = s[enc.pos + 1],
                           !.pc = "while"]
    /\ UNCHANGED <<s, s2, out, padinfo, rets>>
    /\ UNCHANGED argvars
    /\ UNCHANGED procvars

\* line 239, the string is exhausted
ForEnd ==
    /\ enc.pc = "for"
    /\ enc.pos = Len(s)
    /\ enc' = [enc EXCEPT !.pc = "tail"]
    /\ UNCHANGED <<s, s2, out, padinfo, rets>>
    /\ UNCHANGED argvars
    /\ UNCHANGED procvars

\* line 241 true, lines 242-245
WhileShift ==
    /\ enc.pc = "while"
    /\ enc.byte # 0
    /\ enc' = ShiftBit(enc)
    /\ UNCHANGED <<s, s2, out, padinfo, rets>>
    /\ UNCHANGED argvars
    /\ UNCHANGED procvars

\* lines 246-249
WhileEmit ==
    /\ enc.pc = "if"
    /\ enc' = EmitIfFull(enc, FloorLog2(WordlistLen), WordlistLen)
    /\ UNCHANGED <<s, s2, out, padinfo, rets>>
    /\ UNCHANGED argvars
    /\ UNCHANGED procvars

\* line 241 false
WhileEnd ==
    /\ enc.pc = "while"
    /\ enc.byte = 0
    /\ enc' = [enc EXCEPT !.pc = "for"]
    /\ UNCHANGED <<s, s2, out, padinfo, rets>>
    /\ UNCHANGED argvars
    /\ UNCHANGED procvars

\* lines 251-253
TrailingWord ==
    /\ enc.pc = "tail"
    /\ enc' = EmitTail(enc, WordlistLen)
    /\ out' = IF enc'.pc = "done" THEN Some(enc'.out) ELSE None
    /\ UNCHANGED <<s, s2, padinfo, rets>>
    /\ UNCHANGED argvars
    /\ UNCHANGED procvars

NextLoop == ForNext \/ ForEnd \/ WhileShift \/ WhileEmit \/ WhileEnd \/ TrailingWord

SpecLoop == InitLoop /\ [][NextLoop]_vars

----------------------------------------------------------------------------
(* Properties *)

IsPrefix(a, b) == Len(a) <= Len(b) /\ \A i \in 1..Len(a) : a[i] = b[i]
IsSorted(l) == \A i \in 1..(Len(l) - 1) : l[i] <= l[i + 1]
Range(l) == {l[i] : i \in 1..Len(l)}
CeilDiv(a, b) == (a + b - 1) \div b

\* the size and block size a call of sha_file_random in Spec works with
CallSize == SizeOf(files[1], filesize)
CallBlockSize == BlockSizeOf(block_size)

\* C1: two runs of sha_file_random with the same arguments and the same
\* file content, each in a process whose generator starts in a state of
\* its own, read the same list of block offsets and return the same
\* primary and secondary digests.
C1_SeedDeterminism ==
    /\ (block_offsets[1] # None /\ block_offsets[2] # None)
           => block_offsets[1] = block_offsets[2]
    /\ (status[1] = "done" /\ status[2] = "done")
           => (hash[1] = hash[2] /\ hash2[1] = hash2[2])

\* C2: key_to_english(s, wordlist) with the 4096-word list returns
\* ceil(len(s)*8 / 12) words for every byte string s, zero bytes and bytes
\* below 0x80 included.
C2_WordCount ==
    out # None => Len(Val(out)) = CeilDiv(Len(s) * char_bits, word_bits)

\* C3: for the same digests and every n >= 0, the words wordhash returns
\* for n are a prefix of the words it returns for n+1, and are the first n
\* words of what it returns untruncated.
C3_PrefixStable ==
    \A a \in rets : \A b \in rets :
        (a.n # None /\ Val(a.n) >= 0) =>
            /\ b.n = Some(Val(a.n) + 1) => IsPrefix(a.words, b.words)
            /\ b.n = None =>
                  /\ Len(a.words) = Min(Val(a.n), Len(b.words))
                  /\ \A i \in 1..Len(a.words) : a.words[i] = b.words[i]

\* a state where wordhash has run untruncated and for n = 1, 2 and 43 on a
\* 64-byte digest, and the truncations cut words off
C3_Witness ==
    /\ Len(s) = DigestSize
    /\ \E a \in rets : a.n = None /\ Len(a.words) = 43
    /\ \E a \in rets : a.n = Some(1) /\ Len(a.words) = 1
    /\ \E a \in rets : a.n = Some(2) /\ Len(a.words) = 2
    /\ \E a \in rets : a.n = Some(43) /\ Len(a.words) = 43

\* C4: for the 64-byte primary digest, wordhash computes
\* padding = 12 - ((len*8) mod 12) and padding_bytes = padding / 8, and the
\* string it encodes, primary + secondary[0:padding_bytes], has a bit
\* length that is a multiple of 12, so that the last word is a full group.
C4_PaddingFillsLastWord ==
    (padinfo # None /\ Len(s) = DigestSize) =>
        /\ Val(padinfo).padding = word_bits - ((Len(s) * char_bits) % word_bits)
        /\ Val(padinfo).padding_bytes = Val(padinfo).padding \div char_bits
        /\ Val(padinfo).key = s \o PyPrefix(s2, Val(padinfo).padding_bytes)
        /\ (Len(Val(padinfo).key) * char_bits) % word_bits = 0

\* C5: for every 64-byte primary digest and every secondary digest,
\* wordhash with n = k, 1 <= k <= 43, returns exactly k words.
C5_WordCount43 ==
    \A a \in rets :
        (Len(s) = DigestSize /\ a.n # None /\ Val(a.n) \in 1..43)
            => Len(a.words) = Val(a.n)

\* C6: for block_size > 0 the offset list of sha_file_random has k + 2
\* entries for the clamped block count k (k = 0 included), is sorted
\* ascending, and contains offset 0 and offset file_size - block_size;
\* block_count = 0, min_blocks = 0, max_blocks unset, file_size = 10000 and
\* block_size = 512 give exactly the offsets 0 and 9488.
C6_OffsetListShape ==
    \A r \in Runs :
        (block_offsets[r] # None /\ CallBlockSize > 0) =>
            /\ Len(Val(block_offsets[r])) = Val(n_blocks[r]) + 2
            /\ IsSorted(Val(block_offsets[r]))
            /\ 0 \in Range(Val(block_offsets[r]))
            /\ (CallSize - CallBlockSize) \in Range(Val(block_offsets[r]))
            /\ (/\ blocks = Some(0) /\ min_blocks = Some(0) /\ max_blocks = None
                /\ CallSize = 10000 /\ CallBlockSize = 512)
                   => Val(block_offsets[r]) = <<0, 9488>>

\* a call that drew two random offsets out of order, between the two
\* forced ones
C6_Witness ==
    \E r \in Runs :
        /\ status[r] = "done"
        /\ CallBlockSize > 0
        /\ n_blocks[r] = Some(2)
        /\ Len(Val(block_offsets[r])) = 4
        /\ events[r][1][2] > events[r][2][2]
        /\ Val(block_offsets[r])[4] = CallSize - CallBlockSize

\* C7: every offset sha_file_random seeks to is at least 0 and at most
\* max(0, file_size - block_size); with file_size < block_size every
\* offset, the forced last one included, is 0.
C7_SeekOffsetsInRange ==
    \A r \in Runs : \A i \in 1..Len(events[r]) :
        events[r][i][1] = "seek" =>
            /\ events[r][i][2] >= 0
            /\ events[r][i][2] <= Max(0, CallSize - CallBlockSize)

\* the clamps as C8 states them: min_blocks first, then max_blocks, each
\* applied when given, 0 counting as given
C8Clamp(k) ==
    LET k1 == IF min_blocks # None THEN Max(k, Val(min_blocks)) ELSE k
    IN IF max_blocks # None THEN Min(k1, Val(max_blocks)) ELSE k1

\* C8 as stated: k is block_count if given, otherwise
\* floor((file_size / block_size) * percent / 100) with file_size /
\* block_size the exact quotient, then clamped by min_blocks and max_blocks.
C8_BlockCountExactQuotient ==
    \A r \in Runs :
        (n_blocks[r] # None /\ CallBlockSize > 0) =>
            Val(n_blocks[r]) =
                C8Clamp(IF blocks # None THEN Val(blocks)
                        ELSE (CallSize * Val(percent)) \div (CallBlockSize * 100))

\* C8 amended: k is block_count if given, otherwise
\* floor(floor(file_size / block_size) * percent / 100), the quotient being
\* floored before it is multiplied by percent; then clamped by min_blocks
\* and max_blocks, 0 counting as given.
C8_BlockCountFlooredQuotient ==
    \A r \in Runs :
        (n_blocks[r] # None /\ CallBlockSize > 0) =>
            Val(n_blocks[r]) =
                C8Clamp(IF blocks # None THEN Val(blocks)
                        ELSE ((CallSize \div CallBlockSize) * Val(percent)) \div 100)

\* a percent call where the fraction of the quotient matters (3 bytes in
\* blocks of 2 at 80 percent), with min_blocks = 0 given
C8_Witness ==
    \E r \in Runs :
        /\ status[r] = "done"
        /\ blocks = None
        /\ percent = Some(80)
        /\ CallSize = 3
        /\ CallBlockSize = 2
        /\ min_blocks = Some(0)
        /\ max_blocks = None
        /\ n_blocks[r] = Some(0)

\* the files the main program hashes, in order
Targets == IF files = <<>> THEN <<ScriptContent>> ELSE files

\* C9: each hash invocation of one process starts from a fresh digest
\* accumulator: what is printed for a file depends on the file and the
\* parameters only, so the same file named twice gets the same digests and
\* words both times.
C9_InvocationIsolation ==
    \A r \in Runs : \A i \in 1..Len(printed[r]) : \A j \in 1..Len(printed[r]) :
        Targets[i] = Targets[j] => printed[r][i] = printed[r][j]

\* C10: sha_file_random called with block_size <= 0 ends in an error and
\* returns no digest, whatever percent, block_count, min_blocks and
\* max_blocks are.
C10_NonPositiveBlockSizeRejected ==
    \A r \in Runs :
        (block_size # None /\ Val(block_size) <= 0 /\ status[r] # "ready") =>
            /\ status[r] # "done"
            /\ hash[r] = None
            /\ hash2[r] = None

\* C11: inside one sampled hash the first thing done is feeding the decimal
\* string of the file size to the accumulator, the generator is seeded from
\* the digest right after it, every offset is drawn from the generator only
\* after that seeding, and the blocks are then sought in ascending order.
SeekOffsets(r) ==
    SelectSeq(events[r], LAMBDA e : e[1] = "seek")

C11_SeedBeforeDraws ==
    \A r \in Runs :
        events[r] # <<>> =>
            /\ events[r][1] = <<"update", Len(PyStr(CallSize))>>
            /\ events[r][2][1] = "seed"
            /\ \A i \in 1..Len(events[r]) :
                   events[r][i][1] = "randint" =>
                       \E j \in 1..(i - 1) : events[r][j][1] = "seed"
            /\ \A i \in 1..Len(SeekOffsets(r)) : \A j \in 1..Len(SeekOffsets(r)) :
                   i <= j => SeekOffsets(r)[i][2] <= SeekOffsets(r)[j][2]

\* The statement-by-statement run returns what the operator key_to_english
\* computes.
StepwiseAgrees ==
    enc.pc = "done" => enc.out = key_to_english(s, WordlistLen)

RECURSIVE Pow2(_)
Pow2(k) == IF k <= 0 THEN 1 ELSE 2 * Pow2(k - 1)

\* Reference encoder: bit j of the stream (j from 0) is bit j % 8 of byte
\* j \div 8, least significant first; word w packs bits 12(w-1) .. 12w-1,
\* the first of them highest; a trailing group of 1..11 bits is one more word.
RefBit(str, j) == (str[(j \div 8) + 1] \div Pow2(j % 8)) % 2

RECURSIVE RefIndex(_, _, _)
RefIndex(str, lo, hi) ==
    IF hi < lo THEN 0 ELSE RefIndex(str, lo, hi - 1) * 2 + RefBit(str, hi)

RefEncode(str) ==
    LET total == 8 * Len(str)
    IN [w \in 1..CeilDiv(total, 12) |->
            WordAt(RefIndex(str, 12 * (w - 1), Min(12 * w, total) - 1))]

\* C12: key_to_english takes exactly 8 bits from every input byte, least
\* significant first, emits a word after every 12 bits and one final word
\* for a trailing group of 1..11 bits: its output is the reference
\* encoder's for every byte string.
C12_MatchesReferenceEncoder ==
    enc.pc = "done" => enc.out = RefEncode(s)

\* C13: with the 4096-word list, at every point of the loop of
\* key_to_english 0 <= n < 12 between emissions (n = 12 only between line
\* 245 and the emission at line 247), 0 <= ix < 2^n, and every lookup
\* words[ix], of a full group or of the trailing word, has ix in 0..4095
\* and raises no IndexError.
C13_IndexInRange ==
    enc.pc # "idle" =>
        /\ enc.pc # "IndexError"
        /\ enc.n >= 0
        /\ IF enc.pc = "if" THEN enc.n >= 1 /\ enc.n <= 12 ELSE enc.n < 12
        /\ enc.ix >= 0
        /\ enc.ix < Pow2(enc.n)
        /\ \A i \in 1..Len(enc.out) : enc.out[i] >= 0 /\ enc.out[i] <= 4095

\* a 64-byte string of 0xff has been encoded: 42 full-group lookups of
\* index 4095 and the trailing lookup of the last 8 bits
C13_Witness ==
    /\ enc.pc = "done"
    /\ Len(s) = DigestSize
    /\ Len(enc.out) = 43
    /\ enc.out[42] = 4095
    /\ enc.out[43] = 255

====
